---- MODULE Spec2Model ----
(***************************************************************************)
(* Verification model of the pulse oximeter firmware:                      *)
(*   - the signal-processing functions of lib/oximeter.py (and the older   *)
(*     copies in oximeter.py),                                             *)
(*   - the acquisition loop of main.py,                                    *)
(*   - the BLE services of lib/ble_health.py and ble_advertising.py,       *)
(*   - the asyncio peripheral of ble_test.py.                              *)
(* Python lists are sequences; list positions are kept 0-based as in the   *)
(* source and read through At.  Python floats are modelled by exact        *)
(* fractions <<num, den>> with den > 0.                                    *)
(***************************************************************************)
EXTENDS Integers, Sequences, FiniteSets, TLC

\* ------------------------------------------------------------------------
\* Bounds of the function-level specification (SpecFn)
\* ------------------------------------------------------------------------
MaxLen == 7
MaxDist == 3
Vals == {-1, 0, 2, 5}

\* ------------------------------------------------------------------------
\* Generic helpers
\* ------------------------------------------------------------------------
At(arr, i) == arr[i + 1]

Abs(x) == IF x < 0 THEN -x ELSE x

Max2(a, b) == IF a >= b THEN a ELSE b

Min2(a, b) == IF a <= b THEN a ELSE b

SeqsUpTo(S, n) == UNION {[1..m -> S] : m \in 0..n}

\* ------------------------------------------------------------------------
\* find_peaks  (lib/oximeter.py and the older oximeter.py)
\* ------------------------------------------------------------------------
IsCandidate(arr, i) == At(arr, i) > At(arr, i - 1) /\ At(arr, i) >= At(arr, i + 1)

IsCandidateStrict(arr, i) == At(arr, i) > At(arr, i - 1) /\ At(arr, i) > At(arr, i + 1)

KeepPeakNoDistance(peaks, i, threshold) == TRUE

KeepPeak(peaks, i, threshold) ==
    IF Len(peaks) = 0 THEN TRUE ELSE i - peaks[Len(peaks)] >= threshold

\* The loop "for i in range(1, n - 1)" visits the indices in increasing
\* order; each pass of FindPeaksFrom jumps to the next index the loop appends.
SetMin(S) == CHOOSE x \in S : \A y \in S : x <= y

RECURSIVE FindPeaksFrom(_, _, _, _, _, _)
FindPeaksFrom(arr, n, threshold, strict, from, peaks) ==
    LET appended == {i \in from..(n - 2) :
                        /\ IF strict THEN IsCandidateStrict(arr, i) ELSE IsCandidate(arr, i)
                        /\ KeepPeak(peaks, i, threshold)}
    IN  IF appended = {} THEN peaks
        ELSE FindPeaksFrom(arr, n, threshold, strict, SetMin(appended) + 1,
                           Append(peaks, SetMin(appended)))

find_peaks(arr, n, threshold) == FindPeaksFrom(arr, n, threshold, FALSE, 1, <<>>)

find_peaks_strict(arr, n, threshold) == FindPeaksFrom(arr, n, threshold, TRUE, 1, <<>>)

\* ------------------------------------------------------------------------
\* validate_peak_amplitudes  (lib/oximeter.py)
\* ------------------------------------------------------------------------
AmplitudeThreshold == 60

\* percentage variation between two amplitudes, as a fraction <<num, den>>
compare_variation(first_amp, second_amp) ==
    LET higher_peak == Max2(first_amp, second_amp)
        lower_peak == Min2(first_amp, second_amp)
    IN  IF higher_peak = 0
        THEN (IF lower_peak = 0 THEN <<0, 1>> ELSE <<100, 1>>)
        ELSE <<Abs(higher_peak - lower_peak) * 100, Abs(higher_peak)>>

\* variation < threshold on fractions
Below(variation, threshold) == variation[1] < threshold * variation[2]

LeftVariation(signal, peak_indices, i) ==
    compare_variation(At(signal, At(peak_indices, i - 1)), At(signal, At(peak_indices, i)))

RightVariation(signal, peak_indices, i) ==
    compare_variation(At(signal, At(peak_indices, i + 1)), At(signal, At(peak_indices, i)))

\* the acceptance test of one peak: a missing neighbour counts as passing
PeakAccepted(signal, peak_indices, i, threshold) ==
    \/ (i <= 0 \/ Below(LeftVariation(signal, peak_indices, i), threshold))
    \/ (i >= Len(peak_indices) - 1 \/ Below(RightVariation(signal, peak_indices, i), threshold))

RECURSIVE ValidPeaksFrom(_, _, _, _, _)
ValidPeaksFrom(signal, peak_indices, threshold, i, valid_peaks) ==
    IF i >= Len(peak_indices) THEN valid_peaks
    ELSE ValidPeaksFrom(signal, peak_indices, threshold, i + 1,
             IF PeakAccepted(signal, peak_indices, i, threshold)
             THEN Append(valid_peaks, At(peak_indices, i)) ELSE valid_peaks)

\* half of the peaks is enough
MajorityValidHalf(valid_count, total_pairs) == valid_count >= (total_pairs \div 2)

MajorityValid(valid_count, total_pairs) == valid_count > (total_pairs \div 2)

\* returns <<flag, valid_peaks>>
validate_peak_amplitudes(signal, peak_indices, threshold) ==
    IF Len(peak_indices) < 2 THEN <<FALSE, <<>>>>
    ELSE LET valid_peaks == ValidPeaksFrom(signal, peak_indices, threshold, 0, <<>>)
         IN  <<MajorityValid(Len(valid_peaks), Len(peak_indices)), valid_peaks>>

\* ------------------------------------------------------------------------
\* Exact fractions standing for Python floats
\* ------------------------------------------------------------------------
RECURSIVE Gcd(_, _)
Gcd(a, b) == IF b = 0 THEN a ELSE Gcd(b, a % b)

Frac(n, d) ==
    LET g == Gcd(Abs(n), Abs(d))
        sgn == IF d < 0 THEN -1 ELSE 1
    IN  IF n = 0 THEN <<0, 1>> ELSE <<sgn * (n \div g), sgn * (d \div g)>>

FracOfInt(n) == <<n, 1>>

FracLT(a, b) == a[1] * b[2] < b[1] * a[2]

FracAdd(a, b) == Frac(a[1] * b[2] + b[1] * a[2], a[2] * b[2])

FracSub(a, b) == Frac(a[1] * b[2] - b[1] * a[2], a[2] * b[2])

FracMul(a, b) == Frac(a[1] * b[1], a[2] * b[2])

\* a / b with b # 0
FracDiv(a, b) == Frac(a[1] * b[2], a[2] * b[1])

\* int(round(x)): Python rounds halves to the even neighbour
RoundHalfEven(x) ==
    LET q == x[1] \div x[2]
        r == x[1] - q * x[2]
    IN  IF 2 * r < x[2] THEN q
        ELSE IF 2 * r > x[2] THEN q + 1
        ELSE IF q % 2 = 0 THEN q ELSE q + 1

\* ------------------------------------------------------------------------
\* moving_average, calculate_variance, average_peak_difference
\* ------------------------------------------------------------------------
RECURSIVE SumRange(_, _, _)
SumRange(s, lo, hi) ==
    IF lo > hi THEN 0
    ELSE IF lo = hi THEN s[lo]
    ELSE LET mid == (lo + hi) \div 2
         IN  SumRange(s, lo, mid) + SumRange(s, mid + 1, hi)

Sum(s) == SumRange(s, 1, Len(s))

\* only the test of k <= 0
MovingAverageRaisesNotPositive(n, k) == k <= 0

MovingAverageRaises(n, k) == k <= 0 \/ k > n

\* no division of the elements
PreDividedNot(arr, k) == arr

\* each element is divided by k (floor) before the window is summed
PreDivided(arr, k) == [j \in 1..Len(arr) |-> arr[j] \div k]

moving_average(arr, n, k) ==
    IF MovingAverageRaises(n, k) THEN [raised |-> TRUE, value |-> <<>>]
    ELSE LET values == PreDivided(arr, k)
         IN  [raised |-> FALSE,
              value |-> [i \in 1..(n - k + 1) |-> SumRange(values, i, i + k - 1)]]

\* sum((x - mean)^2) / (n - 1) = (Q - S^2/n) / (n - 1), with Q the sum of
\* squares and S the sum.  The result is kept as the record
\* [whole, rem, n]: variance * (n - 1) = whole - rem / n, 0 <= rem < n.
calculate_variance(a) ==
    LET n == Len(a)
        S == Sum(a)
        Q == Sum([j \in 1..n |-> a[j] * a[j]])
    IN  IF n < 2 THEN [whole |-> 0, rem |-> 0, n |-> 2]
        ELSE [whole |-> Q - ((S * S) \div n), rem |-> (S * S) % n, n |-> n]

\* variance <= limit
VarianceAtMost(v, limit) == v.whole <= limit * (v.n - 1)

VarianceHigh == 35000
VarianceLow == 100

VarianceTooHighNever(v) == FALSE

VarianceTooHigh(v) == ~ VarianceAtMost(v, VarianceHigh)

VarianceTooLow(v) == VarianceAtMost(v, VarianceLow)

RECURSIVE DiffSum(_, _)
DiffSum(a, i) == IF i < 1 THEN 0 ELSE (At(a, i) - At(a, i - 1)) + DiffSum(a, i - 1)

average_peak_difference(a, n) ==
    IF n < 2 THEN 0 ELSE DiffSum(a, n - 1) \div (n - 1)

\* ------------------------------------------------------------------------
\* Sensor and acquisition constants (main.py, lib/oximeter.py)
\* ------------------------------------------------------------------------
sample_time_s == 5
sample_len == 100 * sample_time_s
filter_window == 35
peak_distance_threshold == 40
SendEvery == 4
BpmFloor == 80
BpmCeiling == 200

\* FIFO words are 18-bit; the function returns the pair (ir_val, red_val)
get_ir_red_values(fifo_red, fifo_ir) ==
    LET red_val == fifo_red % 262144
        ir_val == fifo_ir % 262144
    IN  <<ir_val, red_val>>

\* light reaching the photodiode: sample i (0-based) of a waveform
WaveSample(w, i) ==
    LET t == (i + w.phase) % w.period
        h == w.period \div 2
    IN  IF w.kind = "tri"
        THEN w.dc + (IF t < h THEN (2 * w.amp * t) \div h - w.amp
                              ELSE w.amp - (2 * w.amp * (t - h)) \div h)
        ELSE w.dc + (IF t = 0 THEN w.amp ELSE 0)

Tri(period, amp, phase, dc) ==
    [kind |-> "tri", period |-> period, amp |-> amp, phase |-> phase, dc |-> dc]

Spikes == [kind |-> "spike", period |-> 100, amp |-> 35, phase |-> 0, dc |-> 0]

\* the acquisition windows explored: <<light on the IR diode, light on the RED diode>>
Windows ==
    { <<Tri(100, 500, 0, 10000), Tri(100, 200, 30, 8000)>>,
      <<Tri(100, 200, 30, 8000), Tri(100, 500, 0, 10000)>>,
      <<Tri(100, 250, 0, 10000), Tri(100, 0, 0, 9000)>>,
      <<Tri(100, 0, 0, 9000), Tri(100, 250, 0, 10000)>>,
      <<Spikes, Tri(100, 250, 0, 10000)>>,
      <<Tri(100, 250, 0, 10000), Tri(50, 250, 0, 8000)>> }

\* bpm = 60 / ir_ac if ir_ac > 0.01 else 0
RawBpm(ir_ac) ==
    IF FracLT(<<1, 100>>, ir_ac) THEN FracDiv(FracOfInt(60), ir_ac) ELSE FracOfInt(0)

ClampBpmNoFloor(b) ==
    IF FracLT(FracOfInt(0), b)
    THEN (IF FracLT(FracOfInt(BpmCeiling), b) THEN FracOfInt(BpmCeiling) ELSE b)
    ELSE FracOfInt(0)

\* bpm = max(80, min(bpm, 200)) if bpm > 0 else 0
ClampBpm(b) ==
    IF FracLT(FracOfInt(0), b)
    THEN (LET m == IF FracLT(FracOfInt(BpmCeiling), b) THEN FracOfInt(BpmCeiling) ELSE b
          IN  IF FracLT(m, FracOfInt(BpmFloor)) THEN FracOfInt(BpmFloor) ELSE m)
    ELSE FracOfInt(0)

\* ac = float(avg_peak_diff * (sample_time_s / sample_len))
AcOf(avg_peak_diff) == Frac(avg_peak_diff * sample_time_s, sample_len)

\* ratio = ac / dc if dc != 0 else 0
GuardedRatio(ac, dc) == IF dc # 0 THEN FracDiv(ac, FracOfInt(dc)) ELSE FracOfInt(0)

\* ratio_of_ratio = red_ratio / ir_ratio if ir_ratio != 0 else 0
RatioOfRatio(red_ratio, ir_ratio) ==
    IF ir_ratio[1] # 0 THEN FracDiv(red_ratio, ir_ratio) ELSE FracOfInt(0)

\* spo2 = 110 - 25 * ratio_of_ratio
Spo2Of(r) == FracSub(FracOfInt(110), FracMul(FracOfInt(25), r))

LastN(s, k) == SubSeq(s, Len(s) - k + 1, Len(s))

RECURSIVE FracSum(_, _)
FracSum(s, i) == IF i < 1 THEN FracOfInt(0) ELSE FracAdd(s[i], FracSum(s, i - 1))

\* the average of the whole history
AverageAllReadings(readings) ==
    FracDiv(FracSum(readings, Len(readings)), FracOfInt(Len(readings)))

\* sum(readings[-4:]) / 4
AverageLast(readings) ==
    LET l == LastN(readings, SendEvery)
    IN  FracDiv(FracSum(l, Len(l)), FracOfInt(SendEvery))

\* ------------------------------------------------------------------------
\* State
\* ------------------------------------------------------------------------
VARIABLES
    fpc,        \* position of the function-level run
    arr,        \* input signal of the function-level run
    threshold,  \* min_distance handed to find_peaks
    peaks,      \* result of find_peaks (lib/oximeter.py)
    peaks_old,  \* result of find_peaks (oximeter.py)
    vresult,    \* result of validate_peak_amplitudes on peaks
    variant,    \* which acquisition loop runs: "main" (main.py) or "lib" (lib/oximeter.py)
    pc,         \* position of the acquisition loop
    outcome,    \* how the current window ended
    sensor,     \* the light on the two diodes during the current window
    red_samples,
    ir_samples,
    ir_dc,
    red_dc,
    processed_ir_samples,
    processed_red_samples,
    moving_average_ir,
    moving_average_red,
    ir_peaks,
    red_peaks,
    ir_validation,   \* (ir_peaks_valid_flag, valid_ir_peaks)
    red_validation,  \* (red_peaks_valid_flag, valid_red_peaks)
    bpm,
    ratio_of_ratio,
    spo2,
    spo2_reading,
    bpm_readings,
    sent,       \* arguments of every ble.send_values call, in order
    hs_is_setup,     \* BLEHealthService._is_setup
    hs_connections,  \* BLEHealthService._connections
    hs_links,        \* centrals the radio of the health service is linked to
    hs_active,       \* radio of the health service is active
    hs_advertising,  \* radio of the health service is advertising
    hs_values,       \* local values of the PulseOx and BPM characteristics
    hs_send,         \* the send_values call in progress or last finished
    hs_result,       \* value returned by the last finished method call
    hs_irq_error,    \* an exception was raised inside _bt_irq
    po_connections,  \* BLEPulseOximeter._connections
    po_advertising,  \* radio of the pulse oximeter is advertising
    po_values,       \* local values of the spot-check, continuous and features characteristics
    po_send,         \* the update_spot_check / update_continuous call in progress or last finished
    po_raised,       \* an exception left the last update_* call
    po_call,         \* arguments and packed data of the last update_spot_check / update_continuous call
    ble_device,      \* which of the two BLE classes the program has constructed
    t_pc,            \* where peripheral_task of ble_test.py stands
    t_connected,     \* connection.is_connected()
    t_cont,          \* the task running simulate_continuous_data
    t_spot,          \* the task running simulate_spot_check_data
    t_cont_cancel,   \* a CancelledError is on its way to the continuous task
    t_spot_cancel,   \* a CancelledError is on its way to the spot-check task
    t_values,        \* local values of continuous_char and spot_check_char
    t_indication,    \* how the last spot-check indication ended
    adv_pc,          \* position of the run of the advertising helpers
    adv_args,        \* arguments of advertising_payload
    adv_payload,     \* the payload advertising_payload returned
    adv_name,        \* what decode_name returned
    adv_services,    \* what decode_services returned
    avg_pc,          \* position of the run of moving_average
    avg_arr,         \* the array handed to moving_average
    avg_k,           \* the window size handed to moving_average
    avg_result,      \* what moving_average returned, or that it raised
    scan_pc,         \* position inside decode_field
    scan_built,      \* whether the payload came from advertising_payload
    scan_args,       \* the arguments advertising_payload was called with
    scan_payload,    \* decode_field's payload
    scan_type,       \* decode_field's adv_type
    scan_i,          \* decode_field's i
    scan_result,     \* decode_field's result
    scan_read        \* the highest index decode_field has read by subscript

fnVars == <<fpc, arr, threshold, peaks, peaks_old, vresult>>

windowVars == <<sensor, red_samples, ir_samples, ir_dc, red_dc,
                processed_ir_samples, processed_red_samples, moving_average_ir,
                moving_average_red, ir_peaks, red_peaks, ir_validation, red_validation,
                bpm, ratio_of_ratio, spo2>>

loopVars == <<variant, pc, outcome, windowVars, spo2_reading, bpm_readings, sent>>

hsVars == <<hs_is_setup, hs_connections, hs_links, hs_active, hs_advertising, hs_values,
            hs_send, hs_result, hs_irq_error>>

poVars == <<po_connections, po_advertising, po_values, po_send, po_raised, po_call>>

bleVars == <<hsVars, poVars, ble_device>>

testVars == <<t_pc, t_connected, t_cont, t_spot, t_cont_cancel, t_spot_cancel, t_values,
              t_indication>>

advVars == <<adv_pc, adv_args, adv_payload, adv_name, adv_services>>

avgVars == <<avg_pc, avg_arr, avg_k, avg_result>>

scanVars == <<scan_pc, scan_built, scan_args, scan_payload, scan_type, scan_i, scan_result,
              scan_read>>

vars == <<fnVars, loopVars, bleVars, testVars, advVars, avgVars, scanVars>>

notFnVars == <<loopVars, bleVars, testVars, advVars, avgVars, scanVars>>

notLoopVars == <<fnVars, bleVars, testVars, advVars, avgVars, scanVars>>

notBleVars == <<fnVars, loopVars, testVars, advVars, avgVars, scanVars>>

notTestVars == <<fnVars, loopVars, bleVars, advVars, avgVars, scanVars>>

notAdvVars == <<fnVars, loopVars, bleVars, testVars, avgVars, scanVars>>

notAvgVars == <<fnVars, loopVars, bleVars, testVars, advVars, scanVars>>

notScanVars == <<fnVars, loopVars, bleVars, testVars, advVars, avgVars>>

IdleSend == [op |-> "idle", start |-> {}, attempted |-> {}, failed |-> {}, changed |-> FALSE]

\* BLEHealthService.__init__
HsConstructed ==
    /\ hs_is_setup = FALSE
    /\ hs_connections = {}
    /\ hs_links = {}
    /\ hs_active = FALSE
    /\ hs_advertising = FALSE
    /\ hs_values = <<0, 0>>
    /\ hs_send = IdleSend
    /\ hs_result = "none"
    /\ hs_irq_error = FALSE

\* BLEPulseOximeter.__init__: radio active, service registered, advertising
PoConstructed ==
    /\ po_connections = {}
    /\ po_advertising = TRUE
    /\ po_values = [spot |-> <<>>, continuous |-> <<>>, features |-> <<>>]
    /\ po_send = IdleSend
    /\ po_raised = FALSE
    /\ po_call = [args |-> <<>>, data |-> <<>>]

\* main.py line 31: ble.setup(...) has run and no central is in range
HsSetUpNoCentral ==
    /\ hs_is_setup = TRUE
    /\ hs_connections = {}
    /\ hs_links = {}
    /\ hs_active = TRUE
    /\ hs_advertising = TRUE
    /\ hs_values = <<0, 0>>
    /\ hs_send = IdleSend
    /\ hs_result = "none"
    /\ hs_irq_error = FALSE

NoWave == Tri(1, 0, 0, 0)

\* no call of decode_field is under way
ScanIdle ==
    /\ scan_pc = "idle"
    /\ scan_built = FALSE
    /\ scan_args = [name |-> <<>>, services |-> <<>>, appearance |-> 0]
    /\ scan_payload = <<>>
    /\ scan_type = 0
    /\ scan_i = 0
    /\ scan_result = <<>>
    /\ scan_read = -1

AvgIdle ==
    /\ avg_pc = "idle"
    /\ avg_arr = <<>>
    /\ avg_k = 1
    /\ avg_result = [raised |-> FALSE, value |-> <<>>]

AdvIdle ==
    /\ adv_pc = "idle"
    /\ adv_args = [limited_disc |-> FALSE, br_edr |-> FALSE, name |-> <<>>, services |-> <<>>,
                   appearance |-> 0]
    /\ adv_payload = <<>>
    /\ adv_name = <<>>
    /\ adv_services = <<>>

TestIdle ==
    /\ t_pc = "idle"
    /\ t_connected = FALSE
    /\ t_cont = "none"
    /\ t_spot = "none"
    /\ t_cont_cancel = FALSE
    /\ t_spot_cancel = FALSE
    /\ t_values = [continuous |-> <<>>, spot |-> <<>>]
    /\ t_indication = "none"

FnIdle ==
    /\ fpc = "idle"
    /\ arr = <<>>
    /\ threshold = 1
    /\ peaks = <<>>
    /\ peaks_old = <<>>
    /\ vresult = <<FALSE, <<>>>>

WindowCleared ==
    /\ sensor = <<NoWave, NoWave>>
    /\ red_samples = <<>>
    /\ ir_samples = <<>>
    /\ ir_dc = 0
    /\ red_dc = 0
    /\ processed_ir_samples = <<>>
    /\ processed_red_samples = <<>>
    /\ moving_average_ir = <<>>
    /\ moving_average_red = <<>>
    /\ ir_peaks = <<>>
    /\ red_peaks = <<>>
    /\ ir_validation = <<FALSE, <<>>>>
    /\ red_validation = <<FALSE, <<>>>>
    /\ bpm = FracOfInt(0)
    /\ ratio_of_ratio = FracOfInt(0)
    /\ spo2 = FracOfInt(0)

LoopIdle ==
    /\ variant = "none"
    /\ pc = "idle"
    /\ outcome = "none"
    /\ WindowCleared
    /\ spo2_reading = <<>>
    /\ bpm_readings = <<>>
    /\ sent = <<>>

\* ------------------------------------------------------------------------
\* SpecFn: the signal functions applied to every small signal
\* ------------------------------------------------------------------------
FnInit ==
    /\ fpc = "input"
    /\ arr \in SeqsUpTo(Vals, MaxLen)
    /\ threshold \in 1..MaxDist
    /\ peaks = <<>>
    /\ peaks_old = <<>>
    /\ vresult = <<FALSE, <<>>>>
    /\ LoopIdle
    /\ ble_device = "none"
    /\ HsConstructed
    /\ PoConstructed
    /\ TestIdle
    /\ ScanIdle
    /\ AdvIdle
    /\ AvgIdle

FnFindPeaks ==
    /\ fpc = "input"
    /\ peaks' = find_peaks(arr, Len(arr), threshold)
    /\ peaks_old' = find_peaks_strict(arr, Len(arr), threshold)
    /\ fpc' = "peaks"
    /\ UNCHANGED <<arr, threshold, vresult, notFnVars>>

FnValidate ==
    /\ fpc = "peaks"
    /\ vresult' = validate_peak_amplitudes(arr, peaks, AmplitudeThreshold)
    /\ fpc' = "validated"
    /\ UNCHANGED <<arr, threshold, peaks, peaks_old, notFnVars>>

FnNext == FnFindPeaks \/ FnValidate

SpecFn == FnInit /\ [][FnNext]_vars

\* ------------------------------------------------------------------------
\* SpecLoop: the acquisition loops of main.py and lib/oximeter.py
\* ------------------------------------------------------------------------
MaxReadings == 4

LoopInit ==
    /\ FnIdle
    /\ ble_device = "health"
    /\ HsSetUpNoCentral
    /\ PoConstructed
    /\ TestIdle
    /\ ScanIdle
    /\ AdvIdle
    /\ AvgIdle
    /\ variant \in {"main", "lib"}
    /\ pc = "acquire"
    /\ outcome = "none"
    /\ WindowCleared
    /\ spo2_reading = <<>>
    /\ bpm_readings = <<>>
    /\ sent = <<>>

\* for i in range(sample_len): red_val, ir_val = get_ir_red_values(); append both
Acquire ==
    /\ pc = "acquire"
    /\ Len(spo2_reading) < MaxReadings
    /\ \E w \in Windows :
        LET returned == [i \in 1..sample_len |->
                            get_ir_red_values(WaveSample(w[2], i - 1), WaveSample(w[1], i - 1))]
        IN  /\ sensor' = w
            /\ red_samples' = [i \in 1..sample_len |-> returned[i][1]]
            /\ ir_samples' = [i \in 1..sample_len |-> returned[i][2]]
    /\ pc' = "remove_dc"
    /\ UNCHANGED <<variant, outcome, ir_dc, red_dc, processed_ir_samples,
                   processed_red_samples, moving_average_ir, moving_average_red,
                   ir_peaks, red_peaks, ir_validation, red_validation, bpm, ratio_of_ratio,
                   spo2, spo2_reading, bpm_readings, sent, notLoopVars>>

Processed(samples, dc) == [i \in 1..Len(samples) |-> samples[i] - dc]

\* DC levels and DC removal
RemoveDc ==
    /\ pc = "remove_dc"
    /\ LET dc_ir == Sum(ir_samples) \div Len(ir_samples)
           dc_red == Sum(red_samples) \div Len(red_samples)
       IN  /\ ir_dc' = dc_ir
           /\ red_dc' = dc_red
           /\ processed_ir_samples' = Processed(ir_samples, dc_ir)
           /\ processed_red_samples' = Processed(red_samples, dc_red)
    /\ pc' = "smooth"
    /\ UNCHANGED <<variant, outcome, sensor, red_samples, ir_samples, moving_average_ir,
                   moving_average_red, ir_peaks, red_peaks, ir_validation, red_validation,
                   bpm, ratio_of_ratio, spo2, spo2_reading, bpm_readings, sent, notLoopVars>>

\* the moving average filter on both channels
Smooth ==
    /\ pc = "smooth"
    /\ moving_average_ir' = moving_average(processed_ir_samples, sample_len, filter_window).value
    /\ moving_average_red' = moving_average(processed_red_samples, sample_len, filter_window).value
    /\ pc' = "gate"
    /\ UNCHANGED <<variant, outcome, sensor, red_samples, ir_samples, ir_dc, red_dc,
                   processed_ir_samples, processed_red_samples, ir_peaks, red_peaks,
                   ir_validation, red_validation, bpm, ratio_of_ratio, spo2,
                   spo2_reading, bpm_readings, sent, notLoopVars>>

\* the variance gate without its continue statements
GateFallsThrough ==
    /\ pc = "gate"
    /\ LET ir_mavg_variance == calculate_variance(moving_average_ir)
       IN  IF ~ VarianceAtMost(ir_mavg_variance, VarianceHigh)
           THEN pc' = "detect" /\ outcome' = "variance_too_high"
           ELSE IF VarianceAtMost(ir_mavg_variance, VarianceLow)
           THEN pc' = "detect" /\ outcome' = "variance_too_low"
           ELSE pc' = "detect" /\ outcome' = outcome
    /\ UNCHANGED <<variant, windowVars, spo2_reading, bpm_readings, sent, notLoopVars>>

\* the variance gate on the filtered signal named moving_average_ir
Gate ==
    /\ pc = "gate"
    /\ LET ir_mavg_variance == calculate_variance(moving_average_ir)
       IN  IF VarianceTooHigh(ir_mavg_variance)
           THEN pc' = "end" /\ outcome' = "variance_too_high"
           ELSE IF VarianceTooLow(ir_mavg_variance)
           THEN pc' = "end" /\ outcome' = "variance_too_low"
           ELSE pc' = "detect" /\ outcome' = outcome
    /\ UNCHANGED <<variant, windowVars, spo2_reading, bpm_readings, sent, notLoopVars>>

\* find_peaks and validate_peak_amplitudes on both filtered signals
Detect ==
    /\ pc = "detect"
    /\ LET pk_ir == find_peaks(moving_average_ir, Len(moving_average_ir), peak_distance_threshold)
           pk_red == find_peaks(moving_average_red, Len(moving_average_red), peak_distance_threshold)
           v_ir == validate_peak_amplitudes(moving_average_ir, pk_ir, AmplitudeThreshold)
           v_red == validate_peak_amplitudes(moving_average_red, pk_red, AmplitudeThreshold)
       IN  /\ ir_peaks' = pk_ir
           /\ red_peaks' = pk_red
           /\ ir_validation' = v_ir
           /\ red_validation' = v_red
           /\ IF ~ v_ir[1] \/ ~ v_red[1]
              THEN pc' = "end" /\ outcome' = "peaks_invalid"
              ELSE pc' = "estimate" /\ outcome' = outcome
    /\ UNCHANGED <<variant, sensor, red_samples, ir_samples, ir_dc, red_dc,
                   processed_ir_samples, processed_red_samples, moving_average_ir,
                   moving_average_red, bpm, ratio_of_ratio, spo2,
                   spo2_reading, bpm_readings, sent, notLoopVars>>

\* main.py lines 73-106: bpm, ratios, SpO2, history and the batched BLE send
EstimateMain ==
    /\ pc = "estimate"
    /\ variant = "main"
    /\ LET avg_ir_peak_diff == average_peak_difference(ir_validation[2], Len(ir_validation[2]))
           avg_red_peak_diff == average_peak_difference(red_validation[2], Len(red_validation[2]))
           ir_ac == AcOf(avg_ir_peak_diff)
           red_ac == AcOf(avg_red_peak_diff)
           new_bpm == ClampBpm(RawBpm(ir_ac))
           ir_ratio == GuardedRatio(ir_ac, ir_dc)
           red_ratio == GuardedRatio(red_ac, red_dc)
           r == RatioOfRatio(red_ratio, ir_ratio)
           new_spo2 == Spo2Of(r)
           spo2s == Append(spo2_reading, new_spo2)
           bpms == Append(bpm_readings, new_bpm)
       IN  /\ bpm' = new_bpm
           /\ ratio_of_ratio' = r
           /\ spo2' = new_spo2
           /\ spo2_reading' = spo2s
           /\ bpm_readings' = bpms
           /\ sent' = IF Len(spo2s) >= SendEvery /\ Len(spo2s) % SendEvery = 0
                      THEN Append(sent, <<RoundHalfEven(AverageLast(spo2s)),
                                          RoundHalfEven(AverageLast(bpms))>>)
                      ELSE sent
    /\ pc' = "end"
    /\ outcome' = "accepted"
    /\ UNCHANGED <<variant, sensor, red_samples, ir_samples, ir_dc, red_dc,
                   processed_ir_samples, processed_red_samples, moving_average_ir,
                   moving_average_red, ir_peaks, red_peaks,
                   ir_validation, red_validation, notLoopVars>>

\* lib/oximeter.py lines 381-424: unguarded divisions, session history
EstimateLib ==
    /\ pc = "estimate"
    /\ variant = "lib"
    /\ LET avg_ir_peak_diff == average_peak_difference(ir_validation[2], Len(ir_validation[2]))
           avg_red_peak_diff == average_peak_difference(red_validation[2], Len(red_validation[2]))
           ir_ac == AcOf(avg_ir_peak_diff)
           red_ac == AcOf(avg_red_peak_diff)
       IN  IF ir_dc = 0 \/ red_dc = 0 \/ ir_ac[1] = 0
           THEN \* ZeroDivisionError leaves the loop and the program
                /\ pc' = "crashed"
                /\ outcome' = "zero_division"
                /\ UNCHANGED <<ratio_of_ratio, spo2, spo2_reading>>
           ELSE LET ir_ratio == FracDiv(ir_ac, FracOfInt(ir_dc))
                    red_ratio == FracDiv(red_ac, FracOfInt(red_dc))
                    r == FracDiv(red_ratio, ir_ratio)
                IN  /\ ratio_of_ratio' = r
                    /\ spo2' = Spo2Of(r)
                    /\ spo2_reading' = Append(spo2_reading, Spo2Of(r))
                    /\ pc' = "end"
                    /\ outcome' = "accepted"
    /\ UNCHANGED <<variant, sensor, red_samples, ir_samples, ir_dc, red_dc,
                   processed_ir_samples, processed_red_samples, moving_average_ir,
                   moving_average_red, ir_peaks, red_peaks,
                   ir_validation, red_validation, bpm, bpm_readings, sent, notLoopVars>>

\* back to the top of while True: the window's locals are dead and start afresh
NextWindow ==
    /\ pc = "end"
    /\ pc' = "acquire"
    /\ outcome' = "none"
    /\ sensor' = <<NoWave, NoWave>>
    /\ red_samples' = <<>>
    /\ ir_samples' = <<>>
    /\ ir_dc' = 0
    /\ red_dc' = 0
    /\ processed_ir_samples' = <<>>
    /\ processed_red_samples' = <<>>
    /\ moving_average_ir' = <<>>
    /\ moving_average_red' = <<>>
    /\ ir_peaks' = <<>>
    /\ red_peaks' = <<>>
    /\ ir_validation' = <<FALSE, <<>>>>
    /\ red_validation' = <<FALSE, <<>>>>
    /\ bpm' = FracOfInt(0)
    /\ ratio_of_ratio' = FracOfInt(0)
    /\ spo2' = FracOfInt(0)
    /\ UNCHANGED <<variant, spo2_reading, bpm_readings, sent, notLoopVars>>

LoopNext == Acquire \/ RemoveDc \/ Smooth \/ Gate \/ Detect \/ EstimateMain \/ EstimateLib \/ NextWindow

SpecLoop == LoopInit /\ [][LoopNext]_vars

\* ------------------------------------------------------------------------
\* SpecBle: BLEHealthService (lib/ble_health.py) and BLEPulseOximeter
\* (ble_advertising.py), one device at a time, with the radio's events
\* ------------------------------------------------------------------------
\* The radio (bluetooth.BLE) is the environment.  A central can connect only
\* while the radio advertises.  What the radio does with its broadcast when a
\* link comes up or goes down differs between stacks: it may stop on connect
\* or carry on, and only a gap_advertise call of the program is certain to
\* start it.  Event handlers run between two steps of the main program.
MaxConns == 2

Conns == 1..MaxConns

PulseOxInputs == {97, 98}

BpmInputs == {80}

\* struct.pack("B", v) for v in 0..255
PackByte(v) == v % 256

\* struct.pack("<BHH", 0, int(spo2 * 100), int(pulse_rate * 100))
\* int(x) of a float: truncation towards zero
IntOfFloat(x) == IF x[1] >= 0 THEN x[1] \div x[2] ELSE - ((- x[1]) \div x[2])

\* The arguments are floats, held as exact fractions; the inputs used are
\* multiples of 1/16, for which the float product with 100 is exact.
PackMeasurement(spo2_value, pulse_rate) ==
    LET a == IntOfFloat(FracMul(spo2_value, FracOfInt(100)))
        b == IntOfFloat(FracMul(pulse_rate, FracOfInt(100)))
    IN  <<0, a % 256, (a \div 256) % 256, b % 256, (b \div 256) % 256>>

\* struct.pack("<I", features_value)
PackFeatures(v) ==
    <<v % 256, (v \div 256) % 256, (v \div 65536) % 256, (v \div 16777216) % 256>>

BeginSend(op, connections) ==
    [op |-> op, start |-> connections, attempted |-> {}, failed |-> {}, changed |-> FALSE]

\* the effect of an add or remove on a loop that is iterating the set
Disturbed(send) ==
    IF send.op = "idle" THEN send ELSE [send EXCEPT !.changed = TRUE]

BleInit ==
    /\ FnIdle
    /\ LoopIdle
    /\ ble_device \in {"health", "pulseox"}
    /\ HsConstructed
    /\ PoConstructed
    /\ TestIdle
    /\ ScanIdle
    /\ AdvIdle
    /\ AvgIdle

\* BLEHealthService.setup
HsSetup ==
    /\ ble_device = "health"
    /\ hs_send.op = "idle"
    /\ IF hs_is_setup
       THEN /\ hs_result' = "setup_already"
            /\ UNCHANGED <<hs_is_setup, hs_active, hs_advertising>>
       ELSE \/ /\ hs_active' = TRUE
               /\ hs_advertising' = TRUE
               /\ hs_is_setup' = TRUE
               /\ hs_result' = "setup_true"
            \/ \* a call into the radio raised: except branch, return False
               /\ hs_active' \in {hs_active, TRUE}
               /\ hs_result' = "setup_false"
               /\ UNCHANGED <<hs_is_setup, hs_advertising>>
    /\ UNCHANGED <<hs_connections, hs_links, hs_values, hs_send, hs_irq_error,
                   ble_device, poVars, notBleVars>>

\* send_values without the test of _is_setup
HsSendValuesUnchecked ==
    /\ ble_device = "health"
    /\ hs_send.op = "idle"
    /\ \E pulseox_value \in PulseOxInputs, bpm_value \in BpmInputs :
        /\ hs_values' = <<PackByte(pulseox_value), PackByte(bpm_value)>>
        /\ hs_send' = BeginSend("send_values", hs_connections)
        /\ hs_result' = "none"
    /\ UNCHANGED <<hs_is_setup, hs_connections, hs_links, hs_active, hs_advertising,
                   hs_irq_error, ble_device, poVars, notBleVars>>

\* BLEHealthService.send_values up to the head of the for loop
HsSendValues ==
    /\ ble_device = "health"
    /\ hs_send.op = "idle"
    /\ \E pulseox_value \in PulseOxInputs, bpm_value \in BpmInputs :
        IF ~ hs_is_setup
        THEN /\ hs_result' = "send_false"
             /\ UNCHANGED <<hs_values, hs_send>>
        ELSE /\ hs_values' = <<PackByte(pulseox_value), PackByte(bpm_value)>>
             /\ hs_send' = BeginSend("send_values", hs_connections)
             /\ hs_result' = "none"
    /\ UNCHANGED <<hs_is_setup, hs_connections, hs_links, hs_active, hs_advertising,
                   hs_irq_error, ble_device, poVars, notBleVars>>

\* one turn of "for conn_handle in self._connections": the iterator reads the
\* live set; the two gatts_notify calls sit in their own try/except
HsNotify ==
    /\ ble_device = "health"
    /\ hs_send.op = "send_values"
    /\ \E conn_handle \in hs_connections \ hs_send.attempted :
        \/ hs_send' = [hs_send EXCEPT !.attempted = @ \cup {conn_handle}]
        \/ hs_send' = [hs_send EXCEPT !.attempted = @ \cup {conn_handle},
                                      !.failed = @ \cup {conn_handle}]
    /\ UNCHANGED <<hs_is_setup, hs_connections, hs_links, hs_active, hs_advertising,
                   hs_values, hs_result, hs_irq_error, ble_device, poVars, notBleVars>>

\* the iterator is exhausted: return True.  After the set has changed under
\* the iterator, entries may be passed over.
HsSendReturn ==
    /\ ble_device = "health"
    /\ hs_send.op = "send_values"
    /\ hs_connections \ hs_send.attempted = {} \/ hs_send.changed
    /\ hs_send' = [hs_send EXCEPT !.op = "idle"]
    /\ hs_result' = "send_true"
    /\ UNCHANGED <<hs_is_setup, hs_connections, hs_links, hs_active, hs_advertising,
                   hs_values, hs_irq_error, ble_device, poVars, notBleVars>>

\* _bt_irq, event 1
HsIrqConnect ==
    /\ ble_device = "health"
    /\ hs_active /\ hs_advertising
    /\ \E conn_handle \in Conns \ hs_links :
        /\ hs_links' = hs_links \cup {conn_handle}
        /\ hs_connections' = hs_connections \cup {conn_handle}
    /\ hs_advertising' \in {FALSE, hs_advertising}
    /\ hs_send' = Disturbed(hs_send)
    /\ UNCHANGED <<hs_is_setup, hs_active, hs_values, hs_result, hs_irq_error,
                   ble_device, poVars, notBleVars>>

\* _bt_irq, event 2: set.remove and a print; no call into the radio
HsIrqDisconnect ==
    /\ ble_device = "health"
    /\ hs_active
    /\ \E conn_handle \in hs_links :
        /\ hs_links' = hs_links \ {conn_handle}
        /\ IF conn_handle \in hs_connections
           THEN /\ hs_connections' = hs_connections \ {conn_handle}
                /\ hs_send' = Disturbed(hs_send)
                /\ UNCHANGED hs_irq_error
           ELSE \* KeyError inside the handler
                /\ hs_irq_error' = TRUE
                /\ UNCHANGED <<hs_connections, hs_send>>
    /\ UNCHANGED <<hs_is_setup, hs_active, hs_advertising, hs_values, hs_result,
                   ble_device, poVars, notBleVars>>

\* stop without self._ble.active(False): the radio and its links stay up
HsStopRadioStaysActive ==
    /\ ble_device = "health"
    /\ hs_send.op = "idle"
    /\ \/ /\ hs_advertising' = FALSE
          /\ hs_is_setup' = FALSE
          /\ hs_connections' = {}
          /\ hs_result' = "stop_true"
          /\ UNCHANGED <<hs_active, hs_links>>
       \/ /\ hs_result' = "stop_false"
          /\ UNCHANGED <<hs_advertising, hs_active, hs_links, hs_is_setup, hs_connections>>
    /\ UNCHANGED <<hs_values, hs_send, hs_irq_error, ble_device, poVars, notBleVars>>

\* BLEHealthService.stop
HsStop ==
    /\ ble_device = "health"
    /\ hs_send.op = "idle"
    /\ \/ /\ hs_advertising' = FALSE
          /\ hs_active' = FALSE
          /\ hs_links' = {}
          /\ hs_is_setup' = FALSE
          /\ hs_connections' = {}
          /\ hs_result' = "stop_true"
       \/ \* gap_advertise(None) raised: except branch, return False
          /\ hs_result' = "stop_false"
          /\ UNCHANGED <<hs_advertising, hs_active, hs_links, hs_is_setup, hs_connections>>
    /\ UNCHANGED <<hs_values, hs_send, hs_irq_error, ble_device, poVars, notBleVars>>

\* BLEPulseOximeter._irq, _IRQ_CENTRAL_CONNECT
PoIrqConnect ==
    /\ ble_device = "pulseox"
    /\ po_advertising
    /\ \E conn_handle \in Conns \ po_connections :
        po_connections' = po_connections \cup {conn_handle}
    /\ po_advertising' \in {FALSE, po_advertising}
    /\ po_send' = Disturbed(po_send)
    /\ UNCHANGED <<po_values, po_raised, po_call, ble_device, hsVars, notBleVars>>

\* BLEPulseOximeter._irq, _IRQ_CENTRAL_DISCONNECT: remove, then self._advertise()
PoIrqDisconnect ==
    /\ ble_device = "pulseox"
    /\ \E conn_handle \in po_connections :
        po_connections' = po_connections \ {conn_handle}
    /\ po_advertising' = TRUE
    /\ po_send' = Disturbed(po_send)
    /\ UNCHANGED <<po_values, po_raised, po_call, ble_device, hsVars, notBleVars>>

SpotInputs == {<<Frac(98, 1), Frac(72, 1)>>, <<Frac(1571, 16), Frac(145, 2)>>}

\* update_spot_check up to the head of the for loop
PoUpdateSpotCheck ==
    /\ ble_device = "pulseox"
    /\ po_send.op = "idle"
    /\ \E m \in SpotInputs :
        /\ po_call' = [args |-> m, data |-> PackMeasurement(m[1], m[2])]
        /\ po_values' = [po_values EXCEPT !.spot = PackMeasurement(m[1], m[2])]
    /\ po_send' = BeginSend("spot_check", po_connections)
    /\ po_raised' = FALSE
    /\ UNCHANGED <<po_connections, po_advertising, ble_device, hsVars, notBleVars>>

\* update_continuous up to the head of the for loop: data is packed and handed
\* to gatts_notify only; there is no gatts_write
PoUpdateContinuous ==
    /\ ble_device = "pulseox"
    /\ po_send.op = "idle"
    /\ \E m \in SpotInputs :
        po_call' = [args |-> m, data |-> PackMeasurement(m[1], m[2])]
    /\ po_send' = BeginSend("continuous", po_connections)
    /\ po_raised' = FALSE
    /\ UNCHANGED <<po_connections, po_advertising, po_values, ble_device, hsVars, notBleVars>>

\* update_features
PoUpdateFeatures ==
    /\ ble_device = "pulseox"
    /\ po_send.op = "idle"
    /\ po_values' = [po_values EXCEPT !.features = PackFeatures(0)]
    /\ po_raised' = FALSE
    /\ UNCHANGED <<po_connections, po_advertising, po_send, po_call, ble_device, hsVars,
                   notBleVars>>

\* one turn of the for loop of update_spot_check / update_continuous: the
\* iterator reads the live set; an error of gatts_indicate / gatts_notify is
\* not caught and leaves the method
PoDeliver ==
    /\ ble_device = "pulseox"
    /\ po_send.op \in {"spot_check", "continuous"}
    /\ \E conn_handle \in po_connections \ po_send.attempted :
        \/ /\ po_send' = [po_send EXCEPT !.attempted = @ \cup {conn_handle}]
           /\ UNCHANGED po_raised
        \/ /\ po_send' = [po_send EXCEPT !.attempted = @ \cup {conn_handle},
                                         !.failed = @ \cup {conn_handle},
                                         !.op = "idle"]
           /\ po_raised' = TRUE
    /\ UNCHANGED <<po_connections, po_advertising, po_values, po_call, ble_device, hsVars,
                   notBleVars>>

\* the iterator is exhausted: the method returns
PoReturn ==
    /\ ble_device = "pulseox"
    /\ po_send.op \in {"spot_check", "continuous"}
    /\ po_connections \ po_send.attempted = {} \/ po_send.changed
    /\ po_send' = [po_send EXCEPT !.op = "idle"]
    /\ UNCHANGED <<po_connections, po_advertising, po_values, po_raised, po_call, ble_device,
                   hsVars, notBleVars>>

BleNext ==
    \/ HsSetup
    \/ HsSendValues
    \/ HsNotify
    \/ HsSendReturn
    \/ HsIrqConnect
    \/ HsIrqDisconnect
    \/ HsStop
    \/ PoIrqConnect
    \/ PoIrqDisconnect
    \/ PoUpdateSpotCheck
    \/ PoUpdateContinuous
    \/ PoUpdateFeatures
    \/ PoDeliver
    \/ PoReturn

SpecBle == BleInit /\ [][BleNext]_vars

\* ------------------------------------------------------------------------
\* SpecTest: the asyncio program of ble_test.py
\* ------------------------------------------------------------------------
\* One action is the run of a task from one await to the next.  The aioble
\* library and the central are the environment: advertise() returns a
\* connection when a central connects; on a disconnect aioble's device task
\* cancels every operation of that connection that waits under a timeout, and
\* the DeviceTimeout turns this into DeviceDisconnectedError; indicate() of a
\* closed connection raises ValueError; connection.disconnected() waits for
\* the disconnect without limit.  Task.cancel() puts the task on the run
\* queue, so a cancelled task runs before the peripheral task is resumed by a
\* later radio event.
SimInputs == {<<95, 60>>, <<99, 110>>}

\* struct.pack("<BB", spo2, pulse_rate)
PackSim(m) == <<m[1] % 256, m[2] % 256>>

\* "except Exception" matches nothing
IsExceptionNever(exc) == FALSE

\* "except Exception": uasyncio's CancelledError derives from BaseException
IsException(exc) == exc # "CancelledError"

Stopped(task) == task \in {"none", "returned", "error_return", "cancelled"}

Cancellable(task) == task \in {"ready", "sleeping", "indicating"}

TestInit ==
    /\ ScanIdle
    /\ FnIdle
    /\ LoopIdle
    /\ ble_device = "none"
    /\ HsConstructed
    /\ PoConstructed
    /\ AdvIdle
    /\ AvgIdle
    /\ t_pc = "loop_top"
    /\ t_connected = FALSE
    /\ t_cont = "none"
    /\ t_spot = "none"
    /\ t_cont_cancel = FALSE
    /\ t_spot_cancel = FALSE
    /\ t_values = [continuous |-> <<>>, spot |-> <<>>]
    /\ t_indication = "none"

\* peripheral_task: top of while True up to the await in aioble.advertise
TAdvertise ==
    /\ t_pc = "loop_top"
    /\ t_pc' = "advertising"
    /\ UNCHANGED <<t_connected, t_cont, t_spot, t_cont_cancel, t_spot_cancel, t_values,
                   t_indication, notTestVars>>

\* aioble.advertise raises: "except Exception" and the 2 s sleep
TAdvertiseError ==
    /\ t_pc = "advertising"
    /\ t_pc' = IF IsException("OSError") THEN "retry_sleep" ELSE "failed"
    /\ UNCHANGED <<t_connected, t_cont, t_spot, t_cont_cancel, t_spot_cancel, t_values,
                   t_indication, notTestVars>>

\* the 2 s sleep is over: back to the top of while True
TRetry ==
    /\ t_pc = "retry_sleep"
    /\ t_pc' = "loop_top"
    /\ UNCHANGED <<t_connected, t_cont, t_spot, t_cont_cancel, t_spot_cancel, t_values,
                   t_indication, notTestVars>>

\* a central connects: advertise returns, both tasks are created, the
\* peripheral task awaits connection.disconnected()
TConnect ==
    /\ t_pc = "advertising"
    /\ Stopped(t_cont) /\ Stopped(t_spot)
    /\ t_connected' = TRUE
    /\ t_cont' = "ready"
    /\ t_spot' = "ready"
    /\ t_cont_cancel' = FALSE
    /\ t_spot_cancel' = FALSE
    /\ t_indication' = "none"
    /\ t_pc' = "connected"
    /\ UNCHANGED <<t_values, notTestVars>>

\* the link goes down: the connection is marked closed and the operation that
\* waits under a timeout (the indication) is cancelled
TDisconnect ==
    /\ t_connected
    /\ t_connected' = FALSE
    /\ t_spot_cancel' = (t_spot_cancel \/ t_spot = "indicating")
    /\ UNCHANGED <<t_pc, t_cont, t_spot, t_cont_cancel, t_values, t_indication, notTestVars>>

\* connection.disconnected() returns: cancel both tasks, leave the async with,
\* back to the top of while True
TAfterDisconnect ==
    /\ t_pc = "connected"
    /\ ~ t_connected
    /\ t_cont_cancel' = (t_cont_cancel \/ Cancellable(t_cont))
    /\ t_spot_cancel' = (t_spot_cancel \/ Cancellable(t_spot))
    /\ t_pc' = "loop_top"
    /\ UNCHANGED <<t_connected, t_cont, t_spot, t_values, t_indication, notTestVars>>

\* simulate_continuous_data from the loop test to the sleep
ContStep ==
    /\ t_cont \in {"ready", "sleeping"}
    /\ ~ t_cont_cancel
    /\ IF ~ t_connected
       THEN t_cont' = "returned" /\ UNCHANGED t_values
       ELSE \E m \in SimInputs :
            /\ t_values' = [t_values EXCEPT !.continuous = PackSim(m)]
            /\ \/ t_cont' = "sleeping"
               \/ \* notify raises: "except Exception", return
                  t_cont' = IF IsException("OSError") THEN "error_return" ELSE "escaped"
    /\ UNCHANGED <<t_pc, t_connected, t_spot, t_cont_cancel, t_spot_cancel, t_indication,
                   notTestVars>>

\* CancelledError is thrown into simulate_continuous_data at its await
ContCancelled ==
    /\ t_cont_cancel
    /\ t_cont' = IF Cancellable(t_cont) THEN "cancelled" ELSE t_cont
    /\ t_cont_cancel' = FALSE
    /\ UNCHANGED <<t_pc, t_connected, t_spot, t_spot_cancel, t_values, t_indication,
                   notTestVars>>

\* where simulate_spot_check_data goes after the inner try statement
SpotLoopTop == IF t_connected THEN "sleeping" ELSE "returned"

\* a timeout of the indication ends the task
SpotRaisedTimeoutEndsTask(exc) ==
    IF exc = "TimeoutError" THEN "error_return"
    ELSE IF IsException(exc) THEN SpotLoopTop ELSE "escaped"

\* the outcome of an exception raised by "await spot_check_char.indicate(...)"
SpotRaised(exc) ==
    IF exc = "TimeoutError" \/ IsException(exc)
    THEN SpotLoopTop
    ELSE "escaped"

\* simulate_spot_check_data: first run, up to the sleep
SpotRun ==
    /\ t_spot = "ready"
    /\ ~ t_spot_cancel
    /\ t_spot' = SpotLoopTop
    /\ UNCHANGED <<t_pc, t_connected, t_cont, t_cont_cancel, t_spot_cancel, t_values,
                   t_indication, notTestVars>>

\* the sleep is over: write the value locally and start the indication
SpotWake ==
    /\ t_spot = "sleeping"
    /\ ~ t_spot_cancel
    /\ \E m \in SimInputs :
        t_values' = [t_values EXCEPT !.spot = PackSim(m)]
    /\ IF t_connected
       THEN t_spot' = "indicating" /\ t_indication' = "in_flight"
       ELSE \* indicate raises ValueError("Not connected")
            t_spot' = SpotRaised("ValueError") /\ t_indication' = "error"
    /\ UNCHANGED <<t_pc, t_connected, t_cont, t_cont_cancel, t_spot_cancel, notTestVars>>

\* the central confirms the indication
SpotAck ==
    /\ t_spot = "indicating"
    /\ t_connected
    /\ ~ t_spot_cancel
    /\ \/ t_spot' = SpotLoopTop /\ t_indication' = "sent"
       \/ \* confirmed with an error status: GattError
          t_spot' = SpotRaised("GattError") /\ t_indication' = "error"
    /\ UNCHANGED <<t_pc, t_connected, t_cont, t_cont_cancel, t_spot_cancel, t_values,
                   notTestVars>>

\* no confirmation within the timeout of indicate
SpotTimeout ==
    /\ t_spot = "indicating"
    /\ t_connected
    /\ ~ t_spot_cancel
    /\ t_spot' = SpotRaised("TimeoutError")
    /\ t_indication' = "timeout"
    /\ UNCHANGED <<t_pc, t_connected, t_cont, t_cont_cancel, t_spot_cancel, t_values,
                   notTestVars>>

\* the cancellation reaches the task: inside indicate it becomes
\* DeviceDisconnectedError, at the sleep it ends the task
SpotCancelled ==
    /\ t_spot_cancel
    /\ t_spot_cancel' = FALSE
    /\ IF t_spot = "indicating"
       THEN t_spot' = SpotRaised("DeviceDisconnectedError") /\ t_indication' = "abandoned"
       ELSE /\ t_spot' = IF Cancellable(t_spot) THEN "cancelled" ELSE t_spot
            /\ UNCHANGED t_indication
    /\ UNCHANGED <<t_pc, t_connected, t_cont, t_cont_cancel, t_values, notTestVars>>

TestNext ==
    \/ TAdvertise
    \/ TAdvertiseError
    \/ TRetry
    \/ TConnect
    \/ TDisconnect
    \/ TAfterDisconnect
    \/ ContStep
    \/ ContCancelled
    \/ SpotRun
    \/ SpotWake
    \/ SpotAck
    \/ SpotTimeout
    \/ SpotCancelled

SpecTest == TestInit /\ [][TestNext]_vars

\* the scheduler runs every task that can run, every sleep ends and every
\* indication is confirmed or times out; the central is free to connect and
\* to disconnect or not
SpecTestFair ==
    /\ SpecTest
    /\ WF_vars(TAdvertise)
    /\ WF_vars(TRetry)
    /\ WF_vars(TAfterDisconnect)
    /\ WF_vars(ContStep)
    /\ WF_vars(ContCancelled)
    /\ WF_vars(SpotRun)
    /\ WF_vars(SpotWake)
    /\ WF_vars(SpotAck \/ SpotTimeout)
    /\ WF_vars(SpotCancelled)

\* ------------------------------------------------------------------------
\* SpecBatch: the history and the batched send of main.py over many accepted
\* windows
\* ------------------------------------------------------------------------
\* The windows are taken at the point where both peak validations have
\* returned True (main.py line 72); what lines 37-72 left behind is drawn from
\* AcceptedWindows, the validated peaks and DC levels of two windows of
\* Windows (the first and the last).
MaxAccepted == 8

Every(first, step, n) == [i \in 1..n |-> first + (i - 1) * step]

AcceptedWindows ==
    { [ir_valid |-> Every(2, 100, 5), red_valid |-> Every(32, 100, 5),
       ir_dc |-> 8000, red_dc |-> 10000],
      [ir_valid |-> Every(8, 50, 10), red_valid |-> Every(32, 100, 5),
       ir_dc |-> 8000, red_dc |-> 10000] }

BatchInit ==
    /\ FnIdle
    /\ ble_device = "health"
    /\ HsSetUpNoCentral
    /\ PoConstructed
    /\ TestIdle
    /\ ScanIdle
    /\ AdvIdle
    /\ AvgIdle
    /\ variant = "main"
    /\ pc = "acquire"
    /\ outcome = "none"
    /\ WindowCleared
    /\ spo2_reading = <<>>
    /\ bpm_readings = <<>>
    /\ sent = <<>>

\* lines 37-72 for a window that passes the variance gate and both validations
PassGates ==
    /\ pc = "acquire"
    /\ Len(spo2_reading) < MaxAccepted
    /\ \E w \in AcceptedWindows :
        /\ ir_peaks' = w.ir_valid
        /\ red_peaks' = w.red_valid
        /\ ir_validation' = <<TRUE, w.ir_valid>>
        /\ red_validation' = <<TRUE, w.red_valid>>
        /\ ir_dc' = w.ir_dc
        /\ red_dc' = w.red_dc
    /\ pc' = "estimate"
    /\ UNCHANGED <<variant, outcome, sensor, red_samples, ir_samples, processed_ir_samples,
                   processed_red_samples, moving_average_ir, moving_average_red, bpm,
                   ratio_of_ratio, spo2, spo2_reading, bpm_readings, sent, notLoopVars>>

BatchNext == PassGates \/ EstimateMain \/ NextWindow

SpecBatch == BatchInit /\ [][BatchNext]_vars

\* ------------------------------------------------------------------------
\* SpecAdv: advertising_payload, decode_field, decode_name and
\* decode_services of ble_advertising.py
\* ------------------------------------------------------------------------
\* Bytes objects are sequences of numbers 0..255 and a str is the sequence of
\* its character codes.  A service is a 16-bit bluetooth.UUID, held as its
\* number.
MaxServices == 2

MaxNameLen == 2

ADV_TYPE_FLAGS == 1

ADV_TYPE_NAME == 9

ADV_TYPE_UUID16_COMPLETE == 3

ADV_TYPE_APPEARANCE == 25

ServiceIds == {0, 6178, 32768, 65535}

NameChars == {3, 9, 65}

LongName == [i \in 1..248 |-> 120]

Names == SeqsUpTo(NameChars, MaxNameLen) \cup {LongName}

Appearances == {0, 768, 833}

\* the bytes of a str of ASCII characters: one byte per character
Utf8Encode(text) == [i \in 1..Len(text) |-> text[i] % 128]

\* str(b, "utf-8") of bytes below 128: one character per byte
Utf8Decode(b) == [i \in 1..Len(b) |-> b[i] % 128]

\* bytes(uuid) of a 16-bit UUID
UuidBytes(uuid) == <<uuid % 256, (uuid \div 256) % 256>>

\* struct.pack("<h", v)
PackShort(v) == <<v % 256, (v \div 256) % 256>>

\* struct.unpack("<h", u)[0]: a signed 16-bit number
UnpackShort(u) ==
    LET v == u[1] + 256 * u[2]
    IN  IF v >= 32768 THEN v - 65536 ELSE v

\* a UUID that keeps the sign of the number it is made from
UuidOfIntKeepsSign(v) == v

\* bluetooth.UUID(v) of an integer not above 65535: a 16-bit UUID made of the
\* two low bytes of v
UuidOfInt(v) == v % 65536

\* _append(adv_type, value)
AppendField(payload, adv_type, value) ==
    payload \o <<(Len(value) + 1) % 256, adv_type>> \o value

RECURSIVE AppendServices(_, _, _)
AppendServices(payload, services, k) ==
    IF k > Len(services) THEN payload
    ELSE AppendServices(AppendField(payload, ADV_TYPE_UUID16_COMPLETE, UuidBytes(services[k])),
                        services, k + 1)

advertising_payload(limited_disc, br_edr, name, services, appearance) ==
    LET flags == (IF limited_disc THEN 1 ELSE 2) + (IF br_edr THEN 24 ELSE 4)
        p1 == AppendField(<<>>, ADV_TYPE_FLAGS, <<flags>>)
        p2 == IF name # <<>> THEN AppendField(p1, ADV_TYPE_NAME, Utf8Encode(name)) ELSE p1
        p3 == AppendServices(p2, services, 1)
    IN  IF appearance # 0
        THEN AppendField(p3, ADV_TYPE_APPEARANCE, PackShort(appearance))
        ELSE p3

\* payload[i + 2 : i + payload[i] + 1] cut one byte short
FieldValueShort(payload, i) ==
    SubSeq(payload, i + 3, Min2(i + At(payload, i), Len(payload)))

\* payload[i + 2 : i + payload[i] + 1]
FieldValue(payload, i) ==
    SubSeq(payload, i + 3, Min2(i + At(payload, i) + 1, Len(payload)))

RECURSIVE DecodeFieldFrom(_, _, _, _)
DecodeFieldFrom(payload, adv_type, i, result) ==
    IF ~ (i + 1 < Len(payload)) THEN result
    ELSE DecodeFieldFrom(payload, adv_type, i + 1 + At(payload, i),
                         IF At(payload, i + 1) = adv_type
                         THEN Append(result, FieldValue(payload, i))
                         ELSE result)

decode_field(payload, adv_type) == DecodeFieldFrom(payload, adv_type, 0, <<>>)

decode_name(payload) ==
    LET n == decode_field(payload, ADV_TYPE_NAME)
    IN  IF n # <<>> THEN Utf8Decode(n[1]) ELSE <<>>

\* the 16-bit part of decode_services; the payloads built here hold no 32-bit
\* or 128-bit service field
decode_services(payload) ==
    LET fields == decode_field(payload, ADV_TYPE_UUID16_COMPLETE)
    IN  [k \in 1..Len(fields) |-> UuidOfInt(UnpackShort(fields[k]))]

AdvInit ==
    /\ FnIdle
    /\ LoopIdle
    /\ ble_device = "none"
    /\ HsConstructed
    /\ PoConstructed
    /\ TestIdle
    /\ ScanIdle
    /\ AvgIdle
    /\ adv_pc = "input"
    /\ adv_args \in [limited_disc : BOOLEAN, br_edr : BOOLEAN, name : Names,
                     services : SeqsUpTo(ServiceIds, MaxServices),
                     appearance : Appearances]
    /\ adv_payload = <<>>
    /\ adv_name = <<>>
    /\ adv_services = <<>>

\* payload = advertising_payload(...)
AdvBuild ==
    /\ adv_pc = "input"
    /\ adv_payload' = advertising_payload(adv_args.limited_disc, adv_args.br_edr,
                                          adv_args.name, adv_args.services,
                                          adv_args.appearance)
    /\ adv_pc' = "built"
    /\ UNCHANGED <<adv_args, adv_name, adv_services, notAdvVars>>

\* decode_name(payload) and decode_services(payload), as in run()
AdvDecode ==
    /\ adv_pc = "built"
    /\ adv_name' = decode_name(adv_payload)
    /\ adv_services' = decode_services(adv_payload)
    /\ adv_pc' = "decoded"
    /\ UNCHANGED <<adv_args, adv_payload, notAdvVars>>

AdvNext == AdvBuild \/ AdvDecode

SpecAdv == AdvInit /\ [][AdvNext]_vars

\* ------------------------------------------------------------------------
\* SpecAvg: moving_average applied to every small signal and window size
\* ------------------------------------------------------------------------
\* As in the two loops, n is the length of the array handed in.
MaxAvgLen == 5

AvgInit ==
    /\ FnIdle
    /\ LoopIdle
    /\ ble_device = "none"
    /\ HsConstructed
    /\ PoConstructed
    /\ TestIdle
    /\ ScanIdle
    /\ AdvIdle
    /\ avg_pc = "input"
    /\ avg_arr \in SeqsUpTo(Vals, MaxAvgLen)
    /\ avg_k \in (-1)..(MaxAvgLen + 1)
    /\ avg_result = [raised |-> FALSE, value |-> <<>>]

\* moving_average(arr, len(arr), k)
AvgCall ==
    /\ avg_pc = "input"
    /\ avg_result' = moving_average(avg_arr, Len(avg_arr), avg_k)
    /\ avg_pc' = "done"
    /\ UNCHANGED <<avg_arr, avg_k, notAvgVars>>

AvgNext == AvgCall

SpecAvg == AvgInit /\ [][AvgNext]_vars

\* ------------------------------------------------------------------------
\* SpecPeaks: find_peaks and validate_peak_amplitudes on signals with up to
\* MaxPeaks peaks
\* ------------------------------------------------------------------------
\* The signals are zigzags: a trough of -1 before and after each of the
\* amplitudes drawn, so that every amplitude is a peak for find_peaks.
MaxPeaks == 4

PeakAmps == {0, 2, 5}

Zigzag(amps) == [j \in 1..(2 * Len(amps) + 1) |-> IF j % 2 = 1 THEN -1 ELSE amps[j \div 2]]

PeaksInit ==
    /\ LoopIdle
    /\ ble_device = "none"
    /\ HsConstructed
    /\ PoConstructed
    /\ TestIdle
    /\ ScanIdle
    /\ AdvIdle
    /\ AvgIdle
    /\ fpc = "input"
    /\ arr \in {Zigzag(amps) : amps \in SeqsUpTo(PeakAmps, MaxPeaks)}
    /\ threshold \in 1..2
    /\ peaks = <<>>
    /\ peaks_old = <<>>
    /\ vresult = <<FALSE, <<>>>>

SpecPeaks == PeaksInit /\ [][FnNext]_vars

\* ------------------------------------------------------------------------
\* SpecScan: decode_field, one turn of its while loop at a time, on byte
\* sequences of any content and on payloads built by advertising_payload
\* ------------------------------------------------------------------------
MaxPayloadLen == 4

ByteVals == {0, 1, 3, 9, 255}

ScanTypes == {ADV_TYPE_UUID16_COMPLETE, ADV_TYPE_NAME}

\* the loop test with the last byte included
ScanContinuesToLastByte(payload, i) == i < Len(payload)

\* while i + 1 < len(payload)
ScanContinues(payload, i) == i + 1 < Len(payload)

\* i = 0; result = []
ScanInit ==
    /\ FnIdle
    /\ LoopIdle
    /\ ble_device = "none"
    /\ HsConstructed
    /\ PoConstructed
    /\ TestIdle
    /\ AdvIdle
    /\ AvgIdle
    /\ scan_args \in [name : Names, services : SeqsUpTo(ServiceIds, MaxServices),
                      appearance : Appearances]
    /\ scan_built \in BOOLEAN
    /\ IF scan_built
       THEN scan_payload = advertising_payload(FALSE, FALSE, scan_args.name,
                                               scan_args.services, scan_args.appearance)
       ELSE /\ scan_args = [name |-> <<>>, services |-> <<>>, appearance |-> 0]
            /\ scan_payload \in SeqsUpTo(ByteVals, MaxPayloadLen)
    /\ scan_type \in ScanTypes
    /\ scan_pc = "loop"
    /\ scan_i = 0
    /\ scan_result = <<>>
    /\ scan_read = -1

\* one turn of the while loop: payload[i + 1] and payload[i] are read by
\* subscript, which raises IndexError past the end; the slice is cut at the end
ScanIterate ==
    /\ scan_pc = "loop"
    /\ ScanContinues(scan_payload, scan_i)
    /\ IF scan_i + 1 >= Len(scan_payload)
       THEN /\ scan_pc' = "index_error"
            /\ scan_read' = scan_i + 1
            /\ UNCHANGED <<scan_i, scan_result>>
       ELSE /\ scan_result' = IF At(scan_payload, scan_i + 1) = scan_type
                              THEN Append(scan_result, FieldValue(scan_payload, scan_i))
                              ELSE scan_result
            /\ scan_i' = scan_i + 1 + At(scan_payload, scan_i)
            /\ scan_read' = Max2(scan_read, scan_i + 1)
            /\ UNCHANGED scan_pc
    /\ UNCHANGED <<scan_built, scan_args, scan_payload, scan_type, notScanVars>>

\* the loop test fails: return result
ScanReturn ==
    /\ scan_pc = "loop"
    /\ ~ ScanContinues(scan_payload, scan_i)
    /\ scan_pc' = "done"
    /\ UNCHANGED <<scan_built, scan_args, scan_payload, scan_type, scan_i, scan_result,
                   scan_read, notScanVars>>

ScanNext == ScanIterate \/ ScanReturn

SpecScan == ScanInit /\ [][ScanNext]_vars

\* the interpreter runs the loop on: a turn that can be taken is taken
SpecScanFair == SpecScan /\ WF_vars(ScanNext)

\* ------------------------------------------------------------------------
\* Claims
\* ------------------------------------------------------------------------
GapsAtLeast(p, d) == \A k \in 1..(Len(p) - 1) : p[k + 1] > p[k] /\ p[k + 1] - p[k] >= d

\* C1: for every signal and every min_distance >= 1 the list returned by
\* find_peaks (both copies) is strictly increasing and consecutive indices
\* differ by at least min_distance.
C1_PeaksSpaced ==
    fpc # "input" => GapsAtLeast(peaks, threshold) /\ GapsAtLeast(peaks_old, threshold)

C1_Witness ==
    /\ fpc = "peaks"
    /\ Len(peaks) >= 2
    /\ threshold = 3
    /\ \E i \in 1..(Len(arr) - 2) : IsCandidate(arr, i) /\ \A k \in 1..Len(peaks) : peaks[k] # i

InSeq(x, s) == \E k \in 1..Len(s) : s[k] = x

\* the neighbour variations that exist for peak i of a peak list
DefinedVariations(signal, peak_indices, i) ==
    (IF i > 0 THEN {LeftVariation(signal, peak_indices, i)} ELSE {})
    \cup (IF i < Len(peak_indices) - 1 THEN {RightVariation(signal, peak_indices, i)} ELSE {})

\* C2: with at least 2 peaks, a peak is accepted iff at least one of its
\* defined neighbour variations is strictly below the threshold; an edge
\* peak has one defined variation and is accepted only when it is below.
C2_AcceptedIffDefinedVariationBelow ==
    (fpc = "validated" /\ Len(peaks) >= 2) =>
        \A i \in 0..(Len(peaks) - 1) :
            InSeq(At(peaks, i), vresult[2]) <=>
                \E v \in DefinedVariations(arr, peaks, i) : Below(v, AmplitudeThreshold)

\* 100 < variance <= 35000
VarianceInBand(signal) ==
    LET v == calculate_variance(signal)
    IN  ~ VarianceAtMost(v, 100) /\ VarianceAtMost(v, 35000)

\* C3 (as stated): no SpO2 value is appended to the reading history unless,
\* in that window, the variance check passed for both the IR and the RED
\* filtered signal and peak validation returned true for both channels.
C3_BothVarianceGates ==
    [][spo2_reading' # spo2_reading =>
          /\ VarianceInBand(moving_average_ir)
          /\ VarianceInBand(moving_average_red)
          /\ ir_validation[1]
          /\ red_validation[1]]_vars

\* C3 (amended): no SpO2 value is appended to the reading history unless, in
\* that window, the variance check passed for the filtered signal the loop
\* names moving_average_ir and peak validation returned true for both channels.
C3_IrVarianceGate ==
    [][spo2_reading' # spo2_reading =>
          /\ pc = "estimate"
          /\ VarianceInBand(moving_average_ir)
          /\ ir_validation[1]
          /\ red_validation[1]]_vars

C3_Witness ==
    /\ pc = "end"
    /\ outcome = "accepted"
    /\ Len(spo2_reading) >= 1
    /\ ~ VarianceInBand(moving_average_red)

\* the AC/DC ratio of one channel, from its raw sample stream
ChannelRatio(samples) ==
    LET dc == Sum(samples) \div Len(samples)
        mavg == moving_average(Processed(samples, dc), sample_len, filter_window).value
        pk == find_peaks(mavg, Len(mavg), peak_distance_threshold)
        valid == validate_peak_amplitudes(mavg, pk, AmplitudeThreshold)[2]
    IN  GuardedRatio(AcOf(average_peak_difference(valid, Len(valid))), dc)

\* component c of the pairs get_ir_red_values returned during the window
ReturnedComponent(c) ==
    [i \in 1..sample_len |->
        get_ir_red_values(WaveSample(sensor[2], i - 1), WaveSample(sensor[1], i - 1))[c]]

\* C4: R is the RED channel's AC/DC ratio divided by the IR channel's, IR
\* being the first and RED the second components of the pairs returned by
\* get_ir_red_values(); the IR-derived ratio is the denominator.
C4_IrRatioIsDenominator ==
    (pc = "end" /\ outcome = "accepted" /\ variant = "main") =>
        ratio_of_ratio = RatioOfRatio(ChannelRatio(ReturnedComponent(2)),
                                      ChannelRatio(ReturnedComponent(1)))

\* C5: a window that reaches ratio computation with an IR or RED DC level of
\* 0 is rejected: nothing is appended to the history, nothing is sent, no
\* exception escapes and the loop goes on to the next window.
C5_ZeroDcRejected ==
    [][(pc = "estimate" /\ (ir_dc = 0 \/ red_dc = 0)) =>
          /\ spo2_reading' = spo2_reading
          /\ bpm_readings' = bpm_readings
          /\ sent' = sent
          /\ pc' = "end"
          /\ outcome' # "accepted"]_vars

C7_SyntheticTriangle ==
    (pc = "end" /\ variant = "main" /\ sensor[1] = Tri(100, 500, 0, 10000)
         /\ sensor[2].kind = "tri" /\ sensor[2].period = 100 /\ sensor[2].amp > 0) =>
        /\ outcome = "accepted"
        /\ Len(red_peaks) >= 3 /\ Len(red_peaks) <= 5
        /\ ~ FracLT(bpm, FracOfInt(55))
        /\ ~ FracLT(FracOfInt(65), bpm)

\* C8: after every disconnect event that leaves the connection set empty the
\* broadcast has been restarted: whenever the service is set up and no peer is
\* connected, the device is advertising.
C8_AdvertisingWhenNoPeer ==
    /\ (ble_device = "health" /\ hs_is_setup /\ hs_connections = {}) => hs_advertising
    /\ (ble_device = "pulseox" /\ po_connections = {}) => po_advertising

\* C9: the fan-out runs over a snapshot of the connection set: a call during
\* which a connect or disconnect handler ran, and in which no delivery raised,
\* has attempted delivery to exactly the peers that were connected when it
\* started.
C9_FanOutOverSnapshot ==
    /\ (hs_send.op = "idle" /\ hs_send.changed /\ hs_send.failed = {})
        => hs_send.attempted = hs_send.start
    /\ (po_send.op = "idle" /\ po_send.changed /\ po_send.failed = {})
        => po_send.attempted = po_send.start

TaskEscaped == t_spot = "escaped" \/ t_cont = "escaped" \/ t_pc = "failed"

IndicationCutOff == t_spot = "indicating" /\ ~ t_connected

Recovered == t_pc = "advertising" /\ Stopped(t_spot) /\ Stopped(t_cont) /\ t_indication = "abandoned"

\* C10: a disconnect while a spot-check indication awaits its confirmation
\* leads to the indication being abandoned, both simulation tasks stopped and
\* the peripheral task advertising again, and no exception ever leaves the
\* spot-check task, the continuous task or the peripheral task.
C10_DisconnectDuringIndication ==
    /\ [](~ TaskEscaped)
    /\ IndicationCutOff ~> Recovered

C10_Witness ==
    /\ t_pc = "advertising"
    /\ t_indication = "abandoned"
    /\ t_spot = "returned"
    /\ Stopped(t_cont)

\* C11: update_continuous writes the new value to the local continuous
\* characteristic before it notifies: while the call is in its fan-out, the
\* local value is the data packed from the call's arguments, also when no
\* peer is connected.
C11_ContinuousWrittenLocally ==
    po_send.op = "continuous" => po_values.continuous = po_call.data

\* C12: a delivery that raises for one peer does not stop the fan-out: a call
\* during which no handler changed the connection set, and in which a
\* delivery failed, has still attempted delivery to every peer of the set.
C12_FailureIsolated ==
    /\ (hs_send.op = "idle" /\ ~ hs_send.changed /\ hs_send.failed # {})
        => hs_send.attempted = hs_send.start
    /\ (po_send.op = "idle" /\ ~ po_send.changed /\ po_send.failed # {})
        => po_send.attempted = po_send.start

\* C13: a spot-check indication that times out is caught and not sent again:
\* the step in which the timeout arrives leaves the task alive at the sleep of
\* its next interval, with the connection up and the local values untouched.
C13_TimeoutSwallowed ==
    [][(t_indication = "in_flight" /\ t_indication' = "timeout")
        => (t_spot' = "sleeping" /\ t_connected' /\ t_values' = t_values)]_vars

C13_Witness ==
    /\ t_indication = "timeout"
    /\ t_spot = "sleeping"
    /\ t_connected

\* C14: the connection set is changed only by the connect and disconnect
\* event handlers: every step that changes _connections of either BLE class
\* is a step of one of its two handlers.
C14_OnlyHandlersChangeConnections ==
    [][/\ (hs_connections' # hs_connections) => (HsIrqConnect \/ HsIrqDisconnect)
       /\ (po_connections' # po_connections) => (PoIrqConnect \/ PoIrqDisconnect)]_vars

Batch(readings, k) == SubSeq(readings, SendEvery * (k - 1) + 1, SendEvery * k)

BatchAverage(readings, k) ==
    RoundHalfEven(FracDiv(FracSum(Batch(readings, k), SendEvery), FracOfInt(SendEvery)))

\* C15: there is one transmission per full group of 4 accepted readings, made
\* when the group fills, and the k-th transmitted pair is the rounded average
\* of readings 4k-3 .. 4k, so that no reading enters two transmissions.
C15_SendEveryFourth ==
    /\ Len(bpm_readings) = Len(spo2_reading)
    /\ Len(sent) = Len(spo2_reading) \div SendEvery
    /\ \A k \in 1..Len(sent) :
        sent[k] = <<BatchAverage(spo2_reading, k), BatchAverage(bpm_readings, k)>>

C15_Witness ==
    /\ Len(spo2_reading) = 2 * SendEvery
    /\ Len(sent) = 2
    /\ sent[1] # sent[2]

\* C16: the reading history never holds more than 4 entries.
C16_HistoryBounded ==
    /\ Len(spo2_reading) <= SendEvery
    /\ Len(bpm_readings) <= SendEvery

RejectedOutcomes == {"variance_too_high", "variance_too_low", "peaks_invalid"}

\* C17: a rejected window ends with the history and the transmissions as they
\* were, and the step after it is the start of a new acquisition window with
\* history and transmissions still untouched; the loop is never left.
C17_RejectionRecoverable ==
    [][/\ (outcome' \in RejectedOutcomes /\ outcome \notin RejectedOutcomes)
            => (pc' = "end" /\ UNCHANGED <<spo2_reading, bpm_readings, sent>>)
       /\ (outcome \in RejectedOutcomes)
            => (pc = "end" /\ pc' = "acquire" /\ outcome' = "none"
                /\ UNCHANGED <<spo2_reading, bpm_readings, sent>>)]_vars

C17_Witness ==
    /\ pc = "end"
    /\ outcome = "peaks_invalid"
    /\ Len(spo2_reading) >= 1

U16LittleEndian(v) == <<v % 256, (v \div 256) % 256>>

EncodeRounded(spo2_value, pulse_rate) ==
    <<0>> \o U16LittleEndian(RoundHalfEven(FracMul(spo2_value, FracOfInt(100))))
          \o U16LittleEndian(RoundHalfEven(FracMul(pulse_rate, FracOfInt(100))))

\* C18: the payload packed by update_spot_check and update_continuous is 5
\* bytes: a zero flags byte, then round(spo2 * 100) and round(pulse_rate * 100)
\* as little-endian 16-bit values.
C18_PayloadRounded ==
    (po_call.args # <<>>) =>
        /\ Len(po_call.data) = 5
        /\ po_call.data = EncodeRounded(po_call.args[1], po_call.args[2])

\* C19: decode_services of the payload built for a list of 16-bit services
\* returns the identifiers of that list, in order.
C19_ServicesRoundTrip ==
    (adv_pc = "decoded") => adv_services = adv_args.services

C19_Witness ==
    /\ adv_pc = "decoded"
    /\ adv_args.services = <<65535, 6178>>
    /\ adv_services = <<65535, 6178>>
    /\ adv_args.name # <<>>

\* C20: decode_name of the payload built for a non-empty ASCII name of at
\* most 248 bytes returns that name, whatever services and appearance the
\* payload also carries.
C20_NameRoundTrip ==
    (adv_pc = "decoded" /\ adv_args.name # <<>> /\ Len(adv_args.name) <= 248)
        => adv_name = adv_args.name

C20_Witness ==
    /\ adv_pc = "decoded"
    /\ Len(adv_args.name) = 248
    /\ adv_name = adv_args.name
    /\ Len(adv_args.services) = MaxServices
    /\ adv_args.appearance # 0

RECURSIVE WindowSum(_, _, _)
WindowSum(a, lo, hi) == IF lo > hi THEN 0 ELSE a[lo] + WindowSum(a, lo + 1, hi)

RECURSIVE SumOfQuotients(_, _, _, _)
SumOfQuotients(a, k, lo, hi) ==
    IF lo > hi THEN 0 ELSE (a[lo] \div k) + SumOfQuotients(a, k, lo + 1, hi)

AvgReturned == avg_pc = "done" /\ ~ avg_result.raised

\* C21: no output of the moving average is larger in magnitude than the exact
\* mean of its window: k * |output i| <= |sum of window i|.
C21_NeverOverReports ==
    AvgReturned =>
        \A i \in 1..Len(avg_result.value) :
            avg_k * Abs(avg_result.value[i]) <= Abs(WindowSum(avg_arr, i, i + avg_k - 1))

\* C22: for 1 <= k <= n, moving_average returns n - k + 1 values and value i
\* is the sum over its window of the elements each integer-divided by k.
C22_SumOfPreDivided ==
    (avg_pc = "done" /\ 1 <= avg_k /\ avg_k <= Len(avg_arr)) =>
        /\ ~ avg_result.raised
        /\ Len(avg_result.value) = Len(avg_arr) - avg_k + 1
        /\ \A i \in 1..Len(avg_result.value) :
            avg_result.value[i] = SumOfQuotients(avg_arr, avg_k, i, i + avg_k - 1)

C22_Witness ==
    /\ AvgReturned
    /\ avg_k = 2
    /\ Len(avg_arr) = 4
    /\ Len(avg_result.value) = 3
    /\ \E j \in 1..4 : avg_arr[j] % 2 # 0

\* C24: moving_average raises whenever the window size is 0 or larger than
\* the array, and with a positive window size it raises in no other case.
C24_RaisesOnBadWindow ==
    (avg_pc = "done") =>
        /\ (avg_k = 0 \/ avg_k > Len(avg_arr))
            => (avg_result.raised /\ avg_result.value = <<>>)
        /\ (avg_k > 0 /\ avg_result.raised) => avg_k > Len(avg_arr)

C24_Witness ==
    /\ avg_pc = "done"
    /\ avg_result.raised
    /\ Len(avg_arr) = 3
    /\ avg_k = 4

AcceptedPeaks(signal, peak_indices) ==
    {i \in 0..(Len(peak_indices) - 1) : PeakAccepted(signal, peak_indices, i, AmplitudeThreshold)}

\* C23: with at least 2 peaks, validate_peak_amplitudes returns True exactly
\* when the accepted peaks number more than floor(peaks / 2), and the list it
\* returns has one entry per accepted peak.
C23_StrictMajority ==
    (fpc = "validated" /\ Len(peaks) >= 2) =>
        /\ vresult[1] = (Cardinality(AcceptedPeaks(arr, peaks)) > Len(peaks) \div 2)
        /\ Len(vresult[2]) = Cardinality(AcceptedPeaks(arr, peaks))

C23_Witness ==
    /\ fpc = "validated"
    /\ Len(peaks) = 4
    /\ Cardinality(AcceptedPeaks(arr, peaks)) = 2
    /\ vresult[1] = FALSE

\* a step that is a call of BLEHealthService.send_values
SendValuesCalled ==
    /\ hs_send.op = "idle"
    /\ \/ hs_send'.op = "send_values"
       \/ hs_result' = "send_false" /\ hs_result # "send_false"

SendRefused == hs_result' = "send_false" /\ UNCHANGED <<hs_values, hs_send>>

SendWritten ==
    /\ hs_values' \in {<<PackByte(p), PackByte(b)>> : p \in PulseOxInputs, b \in BpmInputs}
    /\ hs_send'.op = "send_values"
    /\ hs_send'.attempted = {}

\* a step that notifies a peer
PeerNotified == hs_send'.attempted # hs_send.attempted /\ hs_send'.attempted # {}

StopResults == {"stop_true", "stop_false"}

C26_DisconnectFindsPeer ==
    /\ ~ hs_irq_error
    /\ hs_connections = hs_links

\* a peer present at the start of a fan-out has disconnected during it
C26_Witness ==
    /\ hs_send.op = "send_values"
    /\ hs_send.start # {}
    /\ hs_send.changed
    /\ hs_connections = {}
    /\ hs_links = {}

\* the calls of _append that advertising_payload makes, as <<adv_type, value>>
RECURSIVE ServiceFields(_, _)
ServiceFields(services, k) ==
    IF k > Len(services) THEN <<>>
    ELSE <<(<<ADV_TYPE_UUID16_COMPLETE, UuidBytes(services[k])>>)>> \o ServiceFields(services, k + 1)

AppendedFields(args) ==
    <<(<<ADV_TYPE_FLAGS, <<6>>>>)>>
    \o (IF args.name # <<>> THEN <<(<<ADV_TYPE_NAME, Utf8Encode(args.name)>>)>> ELSE <<>>)
    \o ServiceFields(args.services, 1)
    \o (IF args.appearance # 0
        THEN <<(<<ADV_TYPE_APPEARANCE, PackShort(args.appearance)>>)>> ELSE <<>>)

HasType(field) == field[1] = scan_type

ValuesOfType(fields) ==
    LET tagged == SelectSeq(fields, HasType)
    IN  [k \in 1..Len(tagged) |-> tagged[k][2]]

\* C27: decode_field terminates on every byte sequence, a zero or an
\* oversized length byte included: each turn of its loop moves i strictly
\* forward, no subscript reads past the end of the payload, and on a payload
\* built by advertising_payload it returns the values of exactly the fields
\* appended with the requested type, in the order they were appended.
C27_DecodeFieldTerminates ==
    /\ <>(scan_pc = "done")
    /\ [][scan_pc' = "loop" => scan_i' > scan_i]_vars
    /\ [](scan_pc # "index_error" /\ scan_read < Len(scan_payload))
    /\ []((scan_pc = "done" /\ scan_built) =>
            scan_result = ValuesOfType(AppendedFields(scan_args)))
    /\ [](scan_pc = "done" => scan_result = decode_field(scan_payload, scan_type))

\* a scan that met a zero length byte and then an oversized one
C27_Witness ==
    /\ scan_pc = "done"
    /\ ~ scan_built
    /\ scan_payload = <<0, 9, 255, 9>>
    /\ scan_type = ADV_TYPE_NAME
    /\ scan_result = << <<>> >>
    /\ scan_i = 11
    /\ scan_read = 2

====
